---- MODULE Spec2Model ----
(***************************************************************************)
(* Group membership API of NodeBB (src/api/groups): create, update,        *)
(* delete, join, leave, grant and rescind, together with the isOwner gate  *)
(* and the audit helper logGroupEvent.  Every exported function is one     *)
(* action; the collaborators it calls (groups, user, privileges, meta,     *)
(* events, notifications) are modelled by the operators of the first half  *)
(* of the module.                                                          *)
(***************************************************************************)
EXTENDS Integers, Sequences, FiniteSets, TLC

VARIABLES groupData, members, owners, pending, allowPrivateGroups, prev, last, calls,
          inflight

vars == <<groupData, members, owners, pending, allowPrivateGroups, prev, last, calls,
          inflight>>

\* Number of API calls explored from the initial state.
MaxCalls == 2

(***************************************************************************)
(* JavaScript values                                                       *)
(***************************************************************************)
\* null, as returned by a lookup that finds nothing
Null == "<null>"

\* a missing field or argument
Undefined == "<undefined>"

\* the missing call argument `data`
NoData == [absent |-> TRUE]

\* the record of a group that does not exist (getGroupData finds nothing)
NoGroup == [missing |-> TRUE]

\* typeof v === 'string'
IsString(v) == v \notin {Null, Undefined}

\* !v for a string-or-null value
Falsy(v) == v \in {Null, Undefined, ""}

\* Caller identifiers are numbers (0 is the guest); identifiers in request
\* payloads and in the stored sets are strings.
CallerUids == 0..3

UserIds == {"1", "2", "3"}

UidTokens == {Undefined, "1", "2", "3", "2x"}

\* String(n) for the caller identifiers
ToStr(n) == CASE n = 0 -> "0" [] n = 1 -> "1" [] n = 2 -> "2" [] n = 3 -> "3"

\* parseInt(v, 10): the leading decimal digits, NaN when there are none
parseInt(v) ==
    CASE v = "0" -> [nan |-> FALSE, val |-> 0]
      [] v = "1" -> [nan |-> FALSE, val |-> 1]
      [] v = "2" -> [nan |-> FALSE, val |-> 2]
      [] v = "3" -> [nan |-> FALSE, val |-> 3]
      [] v = "2x" -> [nan |-> FALSE, val |-> 2]
      [] OTHER -> [nan |-> TRUE, val |-> 0]

\* a === b on two parseInt results: NaN is equal to nothing
NumEq(a, b) == ~a.nan /\ ~b.nan /\ a.val = b.val

IpOf(uid) == CASE uid = 0 -> "10.0.0.0" [] uid = 1 -> "10.0.0.1"
               [] uid = 2 -> "10.0.0.2" [] uid = 3 -> "10.0.0.3"

Callers == {[uid |-> u, ip |-> IpOf(u)] : u \in CallerUids}

(***************************************************************************)
(* Group names                                                             *)
(***************************************************************************)
Administrators == "administrators"

Guests == "guests"

PrivGroup == "cid:1:privileges:groups:find"

BookClub == "book-club"

Secret == "secret"

GroupNames == {Administrators, Guests, PrivGroup, BookClub, Secret}

systemGroups == {Administrators}

ephemeralGroups == {Guests}

isPrivilegeGroup(name) == name = PrivGroup

slugify(name) == IF name = PrivGroup THEN "cid-1-privileges-groups-find" ELSE name

Slugs == {slugify(n) : n \in GroupNames} \cup {"no-such-group"}

(***************************************************************************)
(* Permission oracle                                                       *)
(***************************************************************************)
AdminGroupsHolders == {1}

GlobalModerators == {2}

GroupCreators == {1, 2}

\* privileges.admin.can('admin:groups', uid)
adminCan(uid) == uid \in AdminGroupsHolders

\* user.isGlobalModerator(uid)
isGlobalModerator(uid) == uid \in GlobalModerators

\* privileges.global.can('group:create', uid)
globalCan(uid) == uid \in GroupCreators

\* user.isAdministrator(uid): membership of the administrators group
isAdministrator(uid) ==
    groupData[Administrators] # NoGroup /\ ToStr(uid) \in members[Administrators]

\* user.exists(uid)
userExists(uid) == uid \in UserIds

(***************************************************************************)
(* Group directory: reads                                                  *)
(***************************************************************************)
groupExists(name) == name \in GroupNames /\ groupData[name] # NoGroup

\* groups.getGroupNameByGroupSlug(slug)
getGroupNameByGroupSlug(slug) ==
    IF \E n \in GroupNames : groupExists(n) /\ slugify(n) = slug
    THEN CHOOSE n \in GroupNames : groupExists(n) /\ slugify(n) = slug
    ELSE Null

\* groups.getGroupData(name)
getGroupData(name) == IF groupExists(name) THEN groupData[name] ELSE NoGroup

\* groups.ownership.isOwner(uid, name)
ownershipIsOwner(uid, name) == groupExists(name) /\ ToStr(uid) \in owners[name]

\* groups.isMember(uid, name)
isMember(uid, name) == groupExists(name) /\ uid \in members[name]

\* groups.getOwners(name)
getOwners(name) == IF groupExists(name) THEN owners[name] ELSE {}

(***************************************************************************)
(* The outcome of a call                                                   *)
(***************************************************************************)
Ok == "ok"

\* The collaborator calls that only read.
ReadCalls == {"privileges.admin.can", "privileges.global.can",
              "user.isGlobalModerator", "user.isAdministrator", "user.exists",
              "user.getUserFields", "groups.getGroupNameByGroupSlug",
              "groups.getGroupData", "groups.ownership.isOwner",
              "groups.isMember", "groups.getOwners"}

\* The collaborator calls that change the directory.
MutationCalls == {"groups.create", "groups.update", "groups.destroy",
                  "groups.join", "groups.requestMembership", "groups.leave",
                  "groups.ownership.grant", "groups.ownership.rescind"}

\* The collaborator calls that emit to the audit and notification sinks.
EmitCalls == {"events.log", "notifications.create", "notifications.push"}

\* logGroupEvent: the record handed to events.log
logGroupEvent(caller, event, additional) ==
    [type |-> event, uid |-> caller.uid, ip |-> caller.ip] @@ additional

(***************************************************************************)
(* isOwner                                                                 *)
(***************************************************************************)
isOwnerTrace == <<"privileges.admin.can", "user.isGlobalModerator",
                  "groups.ownership.isOwner", "groups.getGroupData">>

\* isOwnerCheck that does not look at the recorded owners
isOwnerCheckNoOwner(isOwnerV, hasAdminPrivilege, isGlobalModeratorV, group) ==
    hasAdminPrivilege \/ (isGlobalModeratorV /\ ~group.system)

\* isOwnerCheck with the system-group exception for global moderators left out
isOwnerCheckAnyGroup(isOwnerV, hasAdminPrivilege, isGlobalModeratorV, group) ==
    isOwnerV \/ hasAdminPrivilege \/ isGlobalModeratorV

\* The gate's decision: `check` of isOwner.  group.system of a missing record
\* is only evaluated when the first two disjuncts are false and the caller is
\* a global moderator; it is then a TypeError.
isOwnerCheck(isOwnerV, hasAdminPrivilege, isGlobalModeratorV, group) ==
    isOwnerV \/ hasAdminPrivilege \/ (isGlobalModeratorV /\ ~group.system)

isOwner(caller, groupName) ==
    IF ~IsString(groupName)
    THEN [err |-> "invalid-group-name", trace |-> <<>>]
    ELSE LET hasAdminPrivilege == adminCan(caller.uid)
             isGlobalModeratorV == isGlobalModerator(caller.uid)
             isOwnerV == ownershipIsOwner(caller.uid, groupName)
             group == getGroupData(groupName)
         IN  IF group = NoGroup /\ ~isOwnerV /\ ~hasAdminPrivilege /\ isGlobalModeratorV
             THEN [err |-> "TypeError", trace |-> isOwnerTrace]
             ELSE IF isOwnerCheck(isOwnerV, hasAdminPrivilege, isGlobalModeratorV, group)
                  THEN [err |-> Ok, trace |-> isOwnerTrace]
                  ELSE [err |-> "no-privileges", trace |-> isOwnerTrace]

(***************************************************************************)
(* Group directory: mutations.  A mutation is a record naming the call and *)
(* its arguments; Apply gives the directory after it.                      *)
(***************************************************************************)
Dir == [groupData |-> groupData, members |-> members, owners |-> owners,
        pending |-> pending]

\* groups.create(data): the record is stored as handed over, the owner is
\* recorded in the ownership relation.
groupsCreate(d, data) ==
    [d EXCEPT !.groupData[data.name] =
                  [system |-> data.system, private |-> FALSE,
                   disableJoinRequests |-> FALSE, disableLeave |-> FALSE],
              !.members[data.name] = {},
              !.owners[data.name] = {ToStr(data.ownerUid)},
              !.pending[data.name] = {}]

\* groups.create fails on a name that is taken.
groupsCreateError(data) ==
    IF groupExists(data.name) THEN "group-already-exists" ELSE Ok

\* The fields groups.update merges into the record; system is not one of them.
UpdatableFlags == {"private", "disableJoinRequests", "disableLeave"}

mergeFields(rec, values) ==
    [f \in DOMAIN rec |->
        IF f \in UpdatableFlags /\ f \in DOMAIN values THEN values[f] ELSE rec[f]]

\* groups.update refuses a new name that is reserved or taken, and the
\* renaming of a system or ephemeral group.
groupsUpdateError(groupName, values) ==
    IF "name" \notin DOMAIN values \/ values.name = groupName THEN Ok
    ELSE IF isPrivilegeGroup(values.name) THEN "invalid-group-name"
    ELSE IF groupExists(values.name) THEN "group-already-exists"
    ELSE IF groupData[groupName].system \/ groupName \in systemGroups \cup ephemeralGroups
         THEN "not-allowed-to-rename-system-group"
    ELSE Ok

\* groups.update(groupName, values): merge the fields, then rename.
groupsUpdate(d, groupName, values) ==
    LET merged == [d EXCEPT !.groupData[groupName] = mergeFields(@, values)]
    IN  IF "name" \notin DOMAIN values \/ values.name = groupName
        THEN merged
        ELSE [groupData |-> [merged.groupData EXCEPT ![values.name] = merged.groupData[groupName],
                                                     ![groupName] = NoGroup],
              members |-> [d.members EXCEPT ![values.name] = d.members[groupName],
                                            ![groupName] = {}],
              owners |-> [d.owners EXCEPT ![values.name] = d.owners[groupName],
                                          ![groupName] = {}],
              pending |-> [d.pending EXCEPT ![values.name] = d.pending[groupName],
                                            ![groupName] = {}]]

\* groups.destroy(groupName)
groupsDestroy(d, groupName) ==
    [d EXCEPT !.groupData[groupName] = NoGroup, !.members[groupName] = {},
              !.owners[groupName] = {}, !.pending[groupName] = {}]

\* groups.join(groupName, uid)
groupsJoin(d, groupName, uid) == [d EXCEPT !.members[groupName] = @ \cup {uid}]

\* groups.requestMembership(groupName, uid)
groupsRequestMembership(d, groupName, uid) ==
    [d EXCEPT !.pending[groupName] = @ \cup {uid}]

\* groups.leave(groupName, uid)
groupsLeave(d, groupName, uid) == [d EXCEPT !.members[groupName] = @ \ {uid}]

\* groups.ownership.grant(uid, groupName)
ownershipGrant(d, uid, groupName) == [d EXCEPT !.owners[groupName] = @ \cup {uid}]

\* groups.ownership.rescind(uid, groupName)
ownershipRescind(d, uid, groupName) == [d EXCEPT !.owners[groupName] = @ \ {uid}]

\* A mutation handed to the directory.
Mut(call, group, uid, data) == [call |-> call, group |-> group, uid |-> uid, data |-> data]

Apply(d, m) ==
    CASE m.call = "groups.create" -> groupsCreate(d, m.data)
      [] m.call = "groups.update" -> groupsUpdate(d, m.group, m.data)
      [] m.call = "groups.destroy" -> groupsDestroy(d, m.group)
      [] m.call = "groups.join" -> groupsJoin(d, m.group, m.uid)
      [] m.call = "groups.requestMembership" -> groupsRequestMembership(d, m.group, m.uid)
      [] m.call = "groups.leave" -> groupsLeave(d, m.group, m.uid)
      [] m.call = "groups.ownership.grant" -> ownershipGrant(d, m.uid, m.group)
      [] m.call = "groups.ownership.rescind" -> ownershipRescind(d, m.uid, m.group)

RECURSIVE ApplyAll(_, _)
ApplyAll(d, ms) == IF ms = <<>> THEN d ELSE ApplyAll(Apply(d, Head(ms)), Tail(ms))

(***************************************************************************)
(* The result of running a handler: how it ended (err), the collaborator   *)
(* calls it made in order (trace), the mutations among them (muts), the    *)
(* audit records (events) and notifications it emitted, and the value it   *)
(* returned (ret).                                                         *)
(***************************************************************************)
Result(err, trace, muts, events) ==
    [err |-> err, trace |-> trace, muts |-> muts, events |-> events,
     notifications |-> <<>>, ret |-> Undefined]

\* throw new Error(err) after the collaborator calls of trace
Throw(err, trace) == Result(err, trace, <<>>, <<>>)

\* No call has been made yet.
NoCall == [op |-> "none", muts |-> <<>>]

\* Number of handler calls that may be in flight together.
MaxHandlers == 2

Handlers == 1..MaxHandlers

\* A handler slot in which no call has started.
Idle == [pc |-> "idle"]

\* A call that left the directory as it found it is not followed further:
\* the calls after it are the calls that were possible before it.  Nor is a
\* call that threw: the calls after it are those after the same call
\* returning.
Explored == calls < MaxCalls /\ (calls = 0 \/ (last.muts # <<>> /\ last.err = Ok))

\* A handler has run: the directory is as its mutations left it, and the
\* call is recorded with the directory it started from.
Call(op, caller, data, r) ==
    /\ Explored
    /\ LET d == ApplyAll(Dir, r.muts)
       IN  /\ groupData' = d.groupData
           /\ members' = d.members
           /\ owners' = d.owners
           /\ pending' = d.pending
    /\ prev' = Dir
    /\ last' = [op |-> op, caller |-> caller, data |-> data] @@ r
    /\ calls' = calls + 1
    /\ UNCHANGED <<allowPrivateGroups, inflight>>

(***************************************************************************)
(* create                                                                  *)
(***************************************************************************)
\* createData without the assignment to data.system
createDataKeepSystem(caller, data) ==
    [ownerUid |-> caller.uid] @@ data

\* data.ownerUid = caller.uid; data.system = false;
createData(caller, data) ==
    [ownerUid |-> caller.uid, system |-> FALSE] @@ data

\* create testing the payload before the caller
createPayloadFirst(caller, data) ==
    IF data = NoData THEN Throw("invalid-data", <<>>)
    ELSE IF caller.uid = 0 THEN Throw("no-privileges", <<>>)
    ELSE IF ~IsString(data.name) \/ isPrivilegeGroup(data.name)
         THEN Throw("invalid-group-name", <<>>)
    ELSE IF ~globalCan(caller.uid)
         THEN Throw("no-privileges", <<"privileges.global.can">>)
    ELSE LET forced == createData(caller, data)
             trace == <<"privileges.global.can", "groups.create">>
         IN  IF groupsCreateError(forced) # Ok
             THEN Throw(groupsCreateError(forced), trace)
             ELSE LET mut == Mut("groups.create", forced.name, Undefined, forced)
                  IN  [Result(Ok, trace \o <<"events.log">>, <<mut>>,
                              <<logGroupEvent(caller, "group-create",
                                              [groupName |-> forced.name])>>)
                       EXCEPT !.ret = Apply(Dir, mut).groupData[forced.name]]

create(caller, data) ==
    IF caller.uid = 0 THEN Throw("no-privileges", <<>>)
    ELSE IF data = NoData THEN Throw("invalid-data", <<>>)
    ELSE IF ~IsString(data.name) \/ isPrivilegeGroup(data.name)
         THEN Throw("invalid-group-name", <<>>)
    ELSE IF ~globalCan(caller.uid)
         THEN Throw("no-privileges", <<"privileges.global.can">>)
    ELSE LET forced == createData(caller, data)
             trace == <<"privileges.global.can", "groups.create">>
         IN  IF groupsCreateError(forced) # Ok
             THEN Throw(groupsCreateError(forced), trace)
             ELSE LET mut == Mut("groups.create", forced.name, Undefined, forced)
                  IN  [Result(Ok, trace \o <<"events.log">>, <<mut>>,
                              <<logGroupEvent(caller, "group-create",
                                              [groupName |-> forced.name])>>)
                       EXCEPT !.ret = Apply(Dir, mut).groupData[forced.name]]

(***************************************************************************)
(* update                                                                  *)
(***************************************************************************)
\* delete data.slug
withoutSlug(data) == [f \in DOMAIN data \ {"slug"} |-> data[f]]

update(caller, data) ==
    IF data = NoData THEN Throw("invalid-data", <<>>)
    ELSE LET groupName == getGroupNameByGroupSlug(data.slug)
             gate == isOwner(caller, groupName)
             t1 == <<"groups.getGroupNameByGroupSlug">> \o gate.trace
         IN  IF gate.err # Ok THEN Throw(gate.err, t1)
             ELSE LET values == withoutSlug(data)
                      t2 == t1 \o <<"groups.update">>
                  IN  IF groupsUpdateError(groupName, values) # Ok
                      THEN Throw(groupsUpdateError(groupName, values), t2)
                      ELSE LET mut == Mut("groups.update", groupName, Undefined, values)
                               after == Apply(Dir, mut).groupData
                               name == IF "name" \in DOMAIN values /\ ~Falsy(values.name)
                                       THEN values.name ELSE groupName
                           IN  [Result(Ok, t2 \o <<"groups.getGroupData">>, <<mut>>, <<>>)
                                EXCEPT !.ret = after[name]]

(***************************************************************************)
(* delete                                                                  *)
(***************************************************************************)
\* deleteNotAllowed without the ephemeral groups
deleteNotAllowedSystemOnly(groupName) == groupName \in systemGroups

\* deleteNotAllowed without the system groups
deleteNotAllowedEphemeralOnly(groupName) == groupName \in ephemeralGroups

\* systemGroups.includes(groupName) || ephemeralGroups.includes(groupName)
deleteNotAllowed(groupName) ==
    groupName \in systemGroups \/ groupName \in ephemeralGroups

delete(caller, data) ==
    LET groupName == getGroupNameByGroupSlug(data.slug)
        gate == isOwner(caller, groupName)
        t1 == <<"groups.getGroupNameByGroupSlug">> \o gate.trace
    IN  IF gate.err # Ok THEN Throw(gate.err, t1)
        ELSE IF deleteNotAllowed(groupName) THEN Throw("not-allowed", t1)
        ELSE Result(Ok, t1 \o <<"groups.destroy", "events.log">>,
                    <<Mut("groups.destroy", groupName, Undefined, NoData)>>,
                    <<logGroupEvent(caller, "group-delete", [groupName |-> groupName])>>)

(***************************************************************************)
(* join                                                                    *)
(***************************************************************************)
\* parseInt(caller.uid, 10) === parseInt(data.uid, 10)
isSelfOf(caller, data) == NumEq(parseInt(ToStr(caller.uid)), parseInt(data.uid))

\* joinNotAllowed without the privilege groups
joinNotAllowedSystemOnly(isCallerAdmin, groupName) ==
    ~isCallerAdmin /\ groupName \in systemGroups

\* !isCallerAdmin && (systemGroups.includes(groupName) || isPrivilegeGroup(groupName))
joinNotAllowed(isCallerAdmin, groupName) ==
    ~isCallerAdmin /\ (groupName \in systemGroups \/ isPrivilegeGroup(groupName))

\* joinAllPublic with the negation of the setting lost
joinAllPublicInverted(isSelf) == allowPrivateGroups /\ isSelf

\* !meta.config.allowPrivateGroups && isSelf
joinAllPublic(isSelf) == ~allowPrivateGroups /\ isSelf

\* joinDisabled with the negation of isCallerAdmin lost
joinDisabledForAdmin(isCallerAdmin, isSelf, group) ==
    isCallerAdmin /\ isSelf /\ group.private /\ group.disableJoinRequests

\* !isCallerAdmin && isSelf && groupData.private && groupData.disableJoinRequests
joinDisabled(isCallerAdmin, isSelf, group) ==
    ~isCallerAdmin /\ isSelf /\ group.private /\ group.disableJoinRequests

\* joinDirect without the owner's right to add members
joinDirectNoOwner(isCallerAdmin, isCallerOwner, isSelf, group) ==
    (~group.private /\ isSelf) \/ isCallerAdmin

\* joinDirect with isSelf lost from the test of a group that is not private
joinDirectAnyTarget(isCallerAdmin, isCallerOwner, isSelf, group) ==
    ~group.private \/ isCallerAdmin \/ isCallerOwner

\* (!groupData.private && isSelf) || isCallerAdmin || isCallerOwner
joinDirect(isCallerAdmin, isCallerOwner, isSelf, group) ==
    (~group.private /\ isSelf) \/ isCallerAdmin \/ isCallerOwner

\* the last branch of join taken without looking at isSelf
joinRequestAlways(isSelf) == TRUE

\* else if (isSelf)
joinRequest(isSelf) == isSelf

\* joinAndLog that checks the membership once the target has joined
joinAndLogVerified(caller, data, groupName, trace) ==
    Result(Ok, trace \o <<"groups.join", "groups.isMember", "events.log">>,
           <<Mut("groups.join", groupName, data.uid, NoData)>>,
           <<logGroupEvent(caller, "group-join",
                           [groupName |-> groupName, targetUid |-> data.uid])>>)

\* groups.join(groupName, data.uid) followed by the group-join audit record
joinAndLog(caller, data, groupName, trace) ==
    Result(Ok, trace \o <<"groups.join", "events.log">>,
           <<Mut("groups.join", groupName, data.uid, NoData)>>,
           <<logGroupEvent(caller, "group-join",
                           [groupName |-> groupName, targetUid |-> data.uid])>>)

\* requestAndLog recording the request under the tag of a direct join
requestAndLogAsJoin(caller, data, groupName, trace) ==
    Result(Ok, trace \o <<"groups.requestMembership", "events.log">>,
           <<Mut("groups.requestMembership", groupName, ToStr(caller.uid), NoData)>>,
           <<logGroupEvent(caller, "group-join",
                           [groupName |-> groupName, targetUid |-> data.uid])>>)

\* groups.requestMembership(groupName, caller.uid) followed by its audit record
requestAndLog(caller, data, groupName, trace) ==
    Result(Ok, trace \o <<"groups.requestMembership", "events.log">>,
           <<Mut("groups.requestMembership", groupName, ToStr(caller.uid), NoData)>>,
           <<logGroupEvent(caller, "group-request-membership",
                           [groupName |-> groupName, targetUid |-> data.uid])>>)

\* joinTable with the `return` of the first rule lost: the call goes on to
\* the rules below it.
joinTableNoReturn(caller, data, groupName, isCallerAdmin, isCallerOwner, isSelf, group, trace) ==
    LET first == IF joinAllPublic(isSelf)
                 THEN joinAndLog(caller, data, groupName, trace)
                 ELSE Result(Ok, trace, <<>>, <<>>)
        rest == IF joinDisabled(isCallerAdmin, isSelf, group)
                THEN Throw("group-join-disabled", <<>>)
                ELSE IF joinDirect(isCallerAdmin, isCallerOwner, isSelf, group)
                     THEN joinAndLog(caller, data, groupName, <<>>)
                ELSE IF joinRequest(isSelf)
                     THEN requestAndLog(caller, data, groupName, <<>>)
                ELSE Result(Ok, <<>>, <<>>, <<>>)
    IN  [first EXCEPT !.err = rest.err,
                      !.trace = @ \o rest.trace,
                      !.muts = @ \o rest.muts,
                      !.events = @ \o rest.events]

\* The decision table that ends join: the first rule that applies decides.
joinTable(caller, data, groupName, isCallerAdmin, isCallerOwner, isSelf, group, trace) ==
    IF joinAllPublic(isSelf) THEN joinAndLog(caller, data, groupName, trace)
    ELSE IF joinDisabled(isCallerAdmin, isSelf, group)
         THEN Throw("group-join-disabled", trace)
    ELSE IF joinDirect(isCallerAdmin, isCallerOwner, isSelf, group)
         THEN joinAndLog(caller, data, groupName, trace)
    ELSE IF joinRequest(isSelf) THEN requestAndLog(caller, data, groupName, trace)
    ELSE Result(Ok, trace, <<>>, <<>>)

join(caller, data) ==
    IF data = NoData THEN Throw("invalid-data", <<>>)
    ELSE IF caller.uid <= 0 \/ Falsy(data.uid) THEN Throw("invalid-uid", <<>>)
    ELSE LET groupName == getGroupNameByGroupSlug(data.slug)
             t1 == <<"groups.getGroupNameByGroupSlug">>
         IN
         IF Falsy(groupName) THEN Throw("no-group", t1)
         ELSE LET isCallerAdmin == isAdministrator(caller.uid)
                  t2 == t1 \o <<"user.isAdministrator">>
              IN
              IF joinNotAllowed(isCallerAdmin, groupName) THEN Throw("not-allowed", t2)
              ELSE LET group == getGroupData(groupName)
                       isCallerOwner == ownershipIsOwner(caller.uid, groupName)
                       exists == userExists(data.uid)
                       t3 == t2 \o <<"groups.getGroupData", "groups.ownership.isOwner",
                                     "user.exists">>
                       isSelf == isSelfOf(caller, data)
                   IN
                   IF ~exists THEN Throw("invalid-uid", t3)
                   ELSE joinTable(caller, data, groupName, isCallerAdmin, isCallerOwner,
                                  isSelf, group, t3)

(***************************************************************************)
(* leave                                                                   *)
(***************************************************************************)
\* user.getUserFields(uid, ['username']).displayname
displayname(uid) == <<"displayname", uid>>

\* leaveSelfAsAdmin comparing with the display form of the name
leaveSelfAsAdminMisspelt(groupName, isSelf) == groupName = "Administrators" /\ isSelf

\* groupName === 'administrators' && isSelf
leaveSelfAsAdmin(groupName, isSelf) == groupName = Administrators /\ isSelf

\* leave without the early return for a target that is no member
leaveNotMemberIgnored(member) == FALSE

\* if (!isMember) return
leaveNotMember(member) == ~member

\* leaveDisabled with isSelf lost
leaveDisabledForAll(group, isSelf) == group.disableLeave

\* groupData.disableLeave && isSelf
leaveDisabled(group, isSelf) == group.disableLeave /\ isSelf

\* leaveAllowed for every caller
leaveAllowedAnyone(isSelf, isCallerAdmin, isCallerOwner) == TRUE

\* isSelf || isCallerAdmin || isCallerOwner
leaveAllowed(isSelf, isCallerAdmin, isCallerOwner) ==
    isSelf \/ isCallerAdmin \/ isCallerOwner

\* The notification built after the leave, with the owners it is pushed to.
leaveNotification(d, data, groupName) ==
    [type |-> "group-leave",
     bodyShort |-> <<displayname(data.uid), groupName>>,
     nid |-> <<"group", groupName, "uid", data.uid, "group-leave">>,
     path |-> <<"/groups", slugify(groupName)>>,
     from |-> data.uid,
     to |-> d.owners[groupName]]

leave(caller, data) ==
    IF data = NoData THEN Throw("invalid-data", <<>>)
    ELSE IF caller.uid <= 0 THEN Throw("invalid-uid", <<>>)
    ELSE LET isSelf == isSelfOf(caller, data)
             groupName == getGroupNameByGroupSlug(data.slug)
             t1 == <<"groups.getGroupNameByGroupSlug">>
         IN
         IF Falsy(groupName) THEN Throw("no-group", t1)
         ELSE IF ~IsString(groupName) THEN Throw("invalid-group-name", t1)
         ELSE IF leaveSelfAsAdmin(groupName, isSelf)
              THEN Throw("cant-remove-self-as-admin", t1)
         ELSE LET group == getGroupData(groupName)
                  isCallerAdmin == isAdministrator(caller.uid)
                  isCallerOwner == ownershipIsOwner(caller.uid, groupName)
                  exists == userExists(data.uid)
                  member == isMember(data.uid, groupName)
                  t2 == t1 \o <<"groups.getGroupData", "user.isAdministrator",
                                "groups.ownership.isOwner", "user.exists",
                                "groups.isMember">>
              IN
              IF ~exists THEN Throw("invalid-uid", t2)
              ELSE IF leaveNotMember(member) THEN Result(Ok, t2, <<>>, <<>>)
              ELSE IF leaveDisabled(group, isSelf) THEN Throw("group-leave-disabled", t2)
              ELSE IF ~leaveAllowed(isSelf, isCallerAdmin, isCallerOwner)
                   THEN Throw("no-privileges", t2)
              ELSE LET mut == Mut("groups.leave", groupName, data.uid, NoData)
                   IN  [Result(Ok,
                               t2 \o <<"groups.leave", "user.getUserFields",
                                       "notifications.create", "groups.getOwners",
                                       "notifications.push", "events.log">>,
                               <<mut>>,
                               <<logGroupEvent(caller, "group-leave",
                                               [groupName |-> groupName,
                                                targetUid |-> data.uid])>>)
                        EXCEPT !.notifications =
                                   <<leaveNotification(Apply(Dir, mut), data, groupName)>>]

(***************************************************************************)
(* grant, rescind                                                          *)
(***************************************************************************)
grant(caller, data) ==
    LET groupName == getGroupNameByGroupSlug(data.slug)
        gate == isOwner(caller, groupName)
        t1 == <<"groups.getGroupNameByGroupSlug">> \o gate.trace
    IN  IF gate.err # Ok THEN Throw(gate.err, t1)
        ELSE Result(Ok, t1 \o <<"groups.ownership.grant", "events.log">>,
                    <<Mut("groups.ownership.grant", groupName, data.uid, NoData)>>,
                    <<logGroupEvent(caller, "group-owner-grant",
                                    [groupName |-> groupName, targetUid |-> data.uid])>>)

rescind(caller, data) ==
    LET groupName == getGroupNameByGroupSlug(data.slug)
        gate == isOwner(caller, groupName)
        t1 == <<"groups.getGroupNameByGroupSlug">> \o gate.trace
    IN  IF gate.err # Ok THEN Throw(gate.err, t1)
        ELSE Result(Ok, t1 \o <<"groups.ownership.rescind", "events.log">>,
                    <<Mut("groups.ownership.rescind", groupName, data.uid, NoData)>>,
                    <<logGroupEvent(caller, "group-owner-rescind",
                                    [groupName |-> groupName, targetUid |-> data.uid])>>)

(***************************************************************************)
(* The requests explored                                                   *)
(***************************************************************************)
CreateInputs ==
    {NoData} \cup
    {[name |-> n, system |-> so[1], ownerUid |-> so[2]] :
        n \in {Secret, BookClub, PrivGroup, Undefined},
        so \in {<<TRUE, 3>>, <<FALSE, 1>>}}

UpdateInputs ==
    {NoData} \cup
    {[slug |-> s, name |-> Secret] : s \in Slugs} \cup
    {[slug |-> s, system |-> TRUE] : s \in Slugs} \cup
    {[slug |-> slugify(BookClub)],
     [slug |-> slugify(BookClub), private |-> TRUE, disableJoinRequests |-> TRUE],
     [slug |-> slugify(BookClub), private |-> TRUE, disableJoinRequests |-> FALSE],
     [slug |-> slugify(BookClub), disableLeave |-> TRUE]}

SlugInputs == {[slug |-> s] : s \in Slugs}

\* Membership and ownership requests leave the ephemeral group alone.
MemberSlugs == Slugs \ {slugify(Guests)}

MemberInputs == {NoData} \cup {[slug |-> s, uid |-> u] : s \in MemberSlugs, u \in UidTokens}

OwnerInputs == {[slug |-> s, uid |-> u] : s \in MemberSlugs, u \in {Undefined, "2", "3"}}

\* The guest (uid 0) is tried on one request of each shape.
GuestInputs ==
    {NoData,
     [name |-> Secret, system |-> TRUE, ownerUid |-> 3],
     [name |-> Undefined, system |-> TRUE, ownerUid |-> 3],
     [slug |-> slugify(BookClub)],
     [slug |-> slugify(BookClub), name |-> Secret],
     [slug |-> slugify(BookClub), uid |-> "3"]}

Requests(inputs) ==
    {req \in Callers \X inputs : req[1].uid # 0 \/ req[2] \in GuestInputs}

(***************************************************************************)
(* The state machine                                                       *)
(***************************************************************************)
InitGroupData ==
    [n \in GroupNames |->
        CASE n = Administrators -> [system |-> TRUE, private |-> TRUE,
                                    disableJoinRequests |-> TRUE, disableLeave |-> FALSE]
          [] n = PrivGroup -> [system |-> TRUE, private |-> TRUE,
                               disableJoinRequests |-> FALSE, disableLeave |-> FALSE]
          [] n = Guests -> [system |-> FALSE, private |-> FALSE,
                            disableJoinRequests |-> FALSE, disableLeave |-> FALSE]
          [] n = BookClub -> [system |-> FALSE, private |-> FALSE,
                              disableJoinRequests |-> FALSE, disableLeave |-> FALSE]
          [] OTHER -> NoGroup]

Init ==
    /\ groupData = InitGroupData
    /\ members = [n \in GroupNames |->
                     CASE n = Administrators -> {"1"}
                       [] n = BookClub -> {"1", "3"}
                       [] OTHER -> {}]
    /\ owners = [n \in GroupNames |-> IF n = BookClub THEN {"3"} ELSE {}]
    /\ pending = [n \in GroupNames |-> {}]
    /\ allowPrivateGroups \in BOOLEAN
    /\ prev = Dir
    /\ last = NoCall
    /\ calls = 0
    /\ inflight = [p \in Handlers |-> Idle]

Create == \E req \in Requests(CreateInputs) :
          Call("create", req[1], req[2], create(req[1], req[2]))

Update == \E req \in Requests(UpdateInputs) :
          Call("update", req[1], req[2], update(req[1], req[2]))

Delete == \E req \in Requests(SlugInputs) :
          Call("delete", req[1], req[2], delete(req[1], req[2]))

Join == \E req \in Requests(MemberInputs) :
        Call("join", req[1], req[2], join(req[1], req[2]))

Leave == \E req \in Requests(MemberInputs) :
         Call("leave", req[1], req[2], leave(req[1], req[2]))

Grant == \E req \in Requests(OwnerInputs) :
         Call("grant", req[1], req[2], grant(req[1], req[2]))

Rescind == \E req \in Requests(OwnerInputs) :
           Call("rescind", req[1], req[2], rescind(req[1], req[2]))

(***************************************************************************)
(* A rejecting audit or notification sink                                  *)
(***************************************************************************)
\* The calls that feed the audit and notification sinks.
SinkCalls == {"events.log", "user.getUserFields", "notifications.create",
              "groups.getOwners", "notifications.push"}

\* What a sink that fails rejects with.
SinkError == "sink-failure"

\* The sink calls a handler awaits after its mutation call.
SinkPositions(r) ==
    {i \in 1..Len(r.trace) :
        /\ r.trace[i] \in SinkCalls
        /\ \E j \in 1..(i - 1) : r.trace[j] \in MutationCalls}

\* The handler whose i-th call rejects: nothing catches the rejection of an
\* awaited call, so the handler ends there and rejects with the same error.
\* What was done before stays done; what was to come is never called.
rejectAt(r, i) ==
    [r EXCEPT !.err = SinkError,
              !.trace = SubSeq(r.trace, 1, i),
              !.events = IF \E j \in 1..(i - 1) : r.trace[j] = "events.log"
                         THEN r.events ELSE <<>>,
              !.notifications =
                  IF \E j \in 1..(i - 1) : r.trace[j] = "notifications.push"
                  THEN r.notifications ELSE <<>>]

Operations == {"create", "update", "delete", "join", "leave", "grant", "rescind"}

inputsOf(op) ==
    CASE op = "create" -> CreateInputs
      [] op = "update" -> UpdateInputs
      [] op = "delete" -> SlugInputs
      [] op \in {"join", "leave"} -> MemberInputs
      [] op \in {"grant", "rescind"} -> OwnerInputs

handle(op, caller, data) ==
    CASE op = "create" -> create(caller, data)
      [] op = "update" -> update(caller, data)
      [] op = "delete" -> delete(caller, data)
      [] op = "join" -> join(caller, data)
      [] op = "leave" -> leave(caller, data)
      [] op = "grant" -> grant(caller, data)
      [] op = "rescind" -> rescind(caller, data)

\* A handler runs while one of the sinks it calls after its mutation rejects.
SinkFailure ==
    \E op \in Operations : \E req \in Requests(inputsOf(op)) :
        LET r == handle(op, req[1], req[2])
        IN  \E i \in SinkPositions(r) : Call(op, req[1], req[2], rejectAt(r, i))

Next == Create \/ Update \/ Delete \/ Join \/ Leave \/ Grant \/ Rescind

Spec == Init /\ [][Next]_vars

NextSinkFailure == Next \/ SinkFailure

\* The handlers with sinks that may reject.
SpecSinkFailure == Init /\ [][NextSinkFailure]_vars

(***************************************************************************)
(* leave, one awaited collaborator call at a time.  Between two awaits of  *)
(* one call the awaits of the other calls in flight may complete.          *)
(***************************************************************************)
\* The leave requests made on the administrators group.
LeaveRequests ==
    {c \in Callers : c.uid # 0} \X
    {[slug |-> slugify(Administrators), uid |-> u] : u \in UserIds}

\* The call ended: it threw err, or returned when err is Ok.
Done(p, err) ==
    [inflight EXCEPT ![p] = [pc |-> "done", err |-> err,
                             caller |-> inflight[p].caller, data |-> inflight[p].data]]

\* The call goes on to its next await with what it has just learnt.
Await(p, pc, learnt) ==
    [inflight EXCEPT ![p] = ([pc |-> pc] @@ learnt) @@ inflight[p]]

DirectoryUnchanged == UNCHANGED <<groupData, members, owners, pending, allowPrivateGroups>>

HistoryUnchanged == UNCHANGED <<prev, last, calls>>

\* The handler is entered: the payload and the caller are validated, isSelf
\* is computed and the slug lookup is issued.
LeaveStart(p) ==
    /\ inflight[p].pc = "idle"
    /\ \E req \in LeaveRequests :
           LET caller == req[1]
               data == req[2]
               started == [inflight EXCEPT ![p] = [pc |-> "started", caller |-> caller,
                                                   data |-> data]]
           IN  inflight' =
                   IF data = NoData
                   THEN [started EXCEPT ![p] = [@ EXCEPT !.pc = "done"] @@ [err |-> "invalid-data"]]
                   ELSE IF caller.uid <= 0
                   THEN [started EXCEPT ![p] = [@ EXCEPT !.pc = "done"] @@ [err |-> "invalid-uid"]]
                   ELSE [started EXCEPT ![p] =
                            [@ EXCEPT !.pc = "groups.getGroupNameByGroupSlug"]
                                @@ [isSelf |-> isSelfOf(caller, data)]]
    /\ DirectoryUnchanged
    /\ HistoryUnchanged

\* await groups.getGroupNameByGroupSlug, then the tests on the name
LeaveResolveSlug(p) ==
    /\ inflight[p].pc = "groups.getGroupNameByGroupSlug"
    /\ LET groupName == getGroupNameByGroupSlug(inflight[p].data.slug)
       IN  inflight' =
               IF Falsy(groupName) THEN Done(p, "no-group")
               ELSE IF ~IsString(groupName) THEN Done(p, "invalid-group-name")
               ELSE IF leaveSelfAsAdmin(groupName, inflight[p].isSelf)
                    THEN Done(p, "cant-remove-self-as-admin")
               ELSE Await(p, "groups.getGroupData", [groupName |-> groupName])
    /\ DirectoryUnchanged
    /\ HistoryUnchanged

\* await groups.getGroupData
LeaveGetGroupData(p) ==
    /\ inflight[p].pc = "groups.getGroupData"
    /\ inflight' = Await(p, "user.isAdministrator",
                         [groupData |-> getGroupData(inflight[p].groupName)])
    /\ DirectoryUnchanged
    /\ HistoryUnchanged

\* await user.isAdministrator
LeaveIsAdministrator(p) ==
    /\ inflight[p].pc = "user.isAdministrator"
    /\ inflight' = Await(p, "groups.ownership.isOwner",
                         [isCallerAdmin |-> isAdministrator(inflight[p].caller.uid)])
    /\ DirectoryUnchanged
    /\ HistoryUnchanged

\* await groups.ownership.isOwner
LeaveIsOwner(p) ==
    /\ inflight[p].pc = "groups.ownership.isOwner"
    /\ inflight' = Await(p, "user.exists",
                         [isCallerOwner |-> ownershipIsOwner(inflight[p].caller.uid,
                                                             inflight[p].groupName)])
    /\ DirectoryUnchanged
    /\ HistoryUnchanged

\* await user.exists
LeaveUserExists(p) ==
    /\ inflight[p].pc = "user.exists"
    /\ inflight' = Await(p, "groups.isMember",
                         [userExists |-> userExists(inflight[p].data.uid)])
    /\ DirectoryUnchanged
    /\ HistoryUnchanged

\* await groups.isMember, then the tests that end in throw, return or the
\* call of groups.leave
LeaveIsMember(p) ==
    /\ inflight[p].pc = "groups.isMember"
    /\ LET l == inflight[p]
           member == isMember(l.data.uid, l.groupName)
       IN  inflight' =
               IF ~l.userExists THEN Done(p, "invalid-uid")
               ELSE IF leaveNotMember(member) THEN Done(p, Ok)
               ELSE IF leaveDisabled(l.groupData, l.isSelf)
                    THEN Done(p, "group-leave-disabled")
               ELSE IF ~leaveAllowed(l.isSelf, l.isCallerAdmin, l.isCallerOwner)
                    THEN Done(p, "no-privileges")
               ELSE Await(p, "groups.leave", [isMember |-> member])
    /\ DirectoryUnchanged
    /\ HistoryUnchanged

\* await groups.leave: the directory removes the target, atomically
LeaveDirectory(p) ==
    /\ inflight[p].pc = "groups.leave"
    /\ members' = groupsLeave(Dir, inflight[p].groupName, inflight[p].data.uid).members
    /\ inflight' = Await(p, "notify", [left |-> TRUE])
    /\ UNCHANGED <<groupData, owners, pending, allowPrivateGroups>>
    /\ HistoryUnchanged

\* the awaits that follow groups.leave: the notification and the audit
\* record, which leave the directory alone
LeaveNotify(p) ==
    /\ inflight[p].pc = "notify"
    /\ inflight' = Done(p, Ok)
    /\ DirectoryUnchanged
    /\ HistoryUnchanged

\* Two administrators, nobody owns their group: platform-admin status is
\* membership of the group, and every owner of it is a member.
InitInterleaved ==
    /\ groupData = InitGroupData
    /\ members = [n \in GroupNames |->
                     CASE n = Administrators -> {"1", "2"}
                       [] n = BookClub -> {"1", "3"}
                       [] OTHER -> {}]
    /\ owners = [n \in GroupNames |-> IF n = BookClub THEN {"3"} ELSE {}]
    /\ pending = [n \in GroupNames |-> {}]
    /\ allowPrivateGroups = TRUE
    /\ prev = Dir
    /\ last = NoCall
    /\ calls = 0
    /\ inflight = [p \in Handlers |-> Idle]

NextInterleaved ==
    \E p \in Handlers :
        \/ LeaveStart(p)
        \/ LeaveResolveSlug(p)
        \/ LeaveGetGroupData(p)
        \/ LeaveIsAdministrator(p)
        \/ LeaveIsOwner(p)
        \/ LeaveUserExists(p)
        \/ LeaveIsMember(p)
        \/ LeaveDirectory(p)
        \/ LeaveNotify(p)

\* Leave calls on the administrators group, interleaved at their awaits.
SpecInterleaved == InitInterleaved /\ [][NextInterleaved]_vars

(***************************************************************************)
(* What the last call found: the directory it started from (prev) and the  *)
(* request it was given (last), read without the handlers' own operators.  *)
(***************************************************************************)
\* The name the slug of the last call stood for when the call began.
PrevName(slug) ==
    IF \E n \in GroupNames : prev.groupData[n] # NoGroup /\ slugify(n) = slug
    THEN CHOOSE n \in GroupNames : prev.groupData[n] # NoGroup /\ slugify(n) = slug
    ELSE Null

LastGroup == PrevName(last.data.slug)

InTrace(c) == \E i \in 1..Len(last.trace) : last.trace[i] = c

Count(c) == Cardinality({i \in 1..Len(last.trace) : last.trace[i] = c})

\* The last call made no directory mutation and emitted nothing.
NothingDone ==
    /\ Dir = prev
    /\ last.muts = <<>>
    /\ last.events = <<>>
    /\ last.notifications = <<>>
    /\ \A c \in MutationCalls \cup EmitCalls : ~InTrace(c)

WasOwner == ToStr(last.caller.uid) \in prev.owners[LastGroup]

WasAdmin == ToStr(last.caller.uid) \in prev.members[Administrators]

WasSelf == last.data.uid = ToStr(last.caller.uid)

\* The audit record of the last call, as the claims describe it.
AuditRecord(tag) ==
    [type |-> tag, uid |-> last.caller.uid, ip |-> IpOf(last.caller.uid),
     groupName |-> LastGroup, targetUid |-> last.data.uid]

(***************************************************************************)
(* C1                                                                      *)
(***************************************************************************)
GateOps == {"update", "delete", "grant", "rescind"}

\* The last call went through the isOwner gate with a group name that is a string.
GateReached ==
    /\ last.op \in GateOps
    /\ last.data # NoData
    /\ IsString(LastGroup)

GateExpected ==
    \/ WasOwner
    \/ last.caller.uid \in AdminGroupsHolders
    \/ (last.caller.uid \in GlobalModerators /\ ~prev.groupData[LastGroup].system)

\* C1: the isOwner gate of update, delete, grant and rescind passes if and
\* only if the caller is a recorded owner of the group, or holds admin:groups,
\* or is a global moderator and the group's record is not flagged system; in
\* every other case the call fails with no-privileges and changes nothing.
C1_IsOwnerGate ==
    GateReached =>
        /\ GateExpected <=> last.err # "no-privileges"
        /\ ~GateExpected => NothingDone

\* A global moderator, neither owner nor admin, is refused on a system group.
C1_Witness ==
    /\ GateReached
    /\ last.caller.uid \in GlobalModerators
    /\ last.caller.uid \notin AdminGroupsHolders
    /\ ~WasOwner
    /\ prev.groupData[LastGroup].system
    /\ last.err = "no-privileges"

(***************************************************************************)
(* C2                                                                      *)
(***************************************************************************)
ProtectedGroups == systemGroups \cup ephemeralGroups

\* C2: every group whose name is in the system-group set or the
\* ephemeral-group set still exists after any sequence of calls, and a delete
\* on such a name neither calls the directory's destroy nor emits a
\* group-delete audit record.
C2_ProtectedGroupsSurvive ==
    /\ \A n \in ProtectedGroups : groupData[n] # NoGroup
    /\ (last.op = "delete" /\ LastGroup \in ProtectedGroups) =>
           /\ ~InTrace("groups.destroy")
           /\ \A i \in 1..Len(last.muts) : last.muts[i].call # "groups.destroy"
           /\ \A i \in 1..Len(last.events) : last.events[i].type # "group-delete"

\* A holder of admin:groups asked for the deletion of an ephemeral group.
C2_Witness ==
    /\ last.op = "delete"
    /\ LastGroup \in ephemeralGroups
    /\ last.caller.uid \in AdminGroupsHolders
    /\ last.err = "not-allowed"
    /\ calls = MaxCalls

(***************************************************************************)
(* C3                                                                      *)
(***************************************************************************)
DeleteAdministrators == last.op = "delete" /\ LastGroup = Administrators

\* C3 as stated: delete on administrators fails with not-allowed for every
\* caller, whatever the caller's roles.
C3_Original == DeleteAdministrators => last.err = "not-allowed"

\* C3, amended: delete on administrators fails for every caller and destroys
\* nothing; the failure is not-allowed for a caller who passes the isOwner
\* gate (a recorded owner of that group included) and no-privileges for a
\* caller who does not, the gate being evaluated first.
C3_DeleteAdministrators ==
    DeleteAdministrators =>
        /\ last.err = IF GateExpected THEN "not-allowed" ELSE "no-privileges"
        /\ NothingDone

\* A recorded owner of administrators without admin:groups asked for its deletion.
C3_Witness ==
    /\ DeleteAdministrators
    /\ WasOwner
    /\ last.caller.uid \notin AdminGroupsHolders
    /\ last.err = "not-allowed"

(***************************************************************************)
(* C4                                                                      *)
(***************************************************************************)
CreateDone == last.op = "create" /\ last.err = Ok

\* C4: on every successful create the record handed to the directory, and
\* the record the directory holds and returns for that name afterwards, has
\* system = false and the caller as its owner, whatever the request carried
\* in system and ownerUid.
C4_CreateForcesOwnerAndSystem ==
    CreateDone =>
        /\ Len(last.muts) = 1
        /\ last.muts[1].call = "groups.create"
        /\ last.muts[1].data.system = FALSE
        /\ last.muts[1].data.ownerUid = last.caller.uid
        /\ groupData[last.data.name].system = FALSE
        /\ last.ret.system = FALSE
        /\ owners[last.data.name] = {ToStr(last.caller.uid)}

\* A request carrying system = true and somebody else as owner succeeded.
C4_Witness ==
    /\ CreateDone
    /\ last.data.system = TRUE
    /\ last.data.ownerUid # last.caller.uid

(***************************************************************************)
(* C5 .. C10: join                                                         *)
(***************************************************************************)
\* The last call is a join that passed validation: payload present, caller
\* identifier positive, target identifier present, slug resolved.
JoinValidated ==
    /\ last.op = "join"
    /\ last.data # NoData
    /\ last.caller.uid > 0
    /\ ~Falsy(last.data.uid)
    /\ ~Falsy(LastGroup)

SystemOrPrivilege == LastGroup \in systemGroups \/ isPrivilegeGroup(LastGroup)

\* C5: a join by a caller who is not a platform administrator to a system
\* group or a privilege group fails with not-allowed, without a directory
\* join, a membership request or an audit record, whoever the target is,
\* whether or not the caller owns the group and whether or not private
\* groups are disabled.
C5_JoinProtectedGroup ==
    (JoinValidated /\ ~WasAdmin /\ SystemOrPrivilege) =>
        /\ last.err = "not-allowed"
        /\ NothingDone

\* An owner of administrators who is no administrator joins it himself while
\* private groups are disabled.
C5_Witness ==
    /\ JoinValidated
    /\ ~WasAdmin
    /\ LastGroup = Administrators
    /\ WasOwner
    /\ WasSelf
    /\ ~allowPrivateGroups
    /\ last.err = "not-allowed"

\* The last join got as far as its decision table.
TableReached ==
    /\ JoinValidated
    /\ ~(~WasAdmin /\ SystemOrPrivilege)
    /\ last.data.uid \in UserIds

WasPrivate == prev.groupData[LastGroup].private

WasJoinDisabled == prev.groupData[LastGroup].disableJoinRequests

Rule1 == ~allowPrivateGroups /\ WasSelf

Rule2 == ~WasAdmin /\ WasSelf /\ WasPrivate /\ WasJoinDisabled

Rule3 == (~WasPrivate /\ WasSelf) \/ WasAdmin \/ WasOwner

\* The four outcomes of a join.
DirectJoin ==
    /\ last.err = Ok
    /\ Count("groups.join") = 1
    /\ ~InTrace("groups.requestMembership")
    /\ members = [prev.members EXCEPT ![LastGroup] = @ \cup {last.data.uid}]
    /\ pending = prev.pending
    /\ last.events = <<AuditRecord("group-join")>>

PendingRequest ==
    /\ last.err = Ok
    /\ Count("groups.requestMembership") = 1
    /\ ~InTrace("groups.join")
    /\ pending = [prev.pending EXCEPT ![LastGroup] = @ \cup {ToStr(last.caller.uid)}]
    /\ members = prev.members
    /\ last.events = <<AuditRecord("group-request-membership")>>

NoOp == last.err = Ok /\ NothingDone

Denial == last.err # Ok /\ NothingDone

Outcomes == <<DirectJoin, PendingRequest, NoOp, Denial>>

\* C6: every join that reaches the decision table ends in exactly one of
\* direct join, pending membership request, silent no-op and denial.
C6_JoinTableTotal ==
    TableReached => Cardinality({i \in 1..4 : Outcomes[i]}) = 1

\* The override of the first rule applied to a group that the second rule
\* would have refused.
C6_Witness ==
    /\ TableReached
    /\ Rule1
    /\ Rule2
    /\ DirectJoin

\* C7: when neither the first nor the second rule applies, the target is
\* joined directly, with a group-join audit record, if and only if the group
\* is not private and the caller is the target, or the caller is a platform
\* admin, or the caller is a group owner.
C7_JoinDirect ==
    (TableReached /\ ~Rule1 /\ ~Rule2) =>
        /\ Rule3 <=> DirectJoin
        /\ Rule3 <=> InTrace("groups.join")

\* A member without any role joins a group that is not private himself.
C7_Witness ==
    /\ TableReached
    /\ ~Rule1
    /\ WasSelf
    /\ ~WasPrivate
    /\ ~WasAdmin
    /\ ~WasOwner
    /\ last.caller.uid \notin AdminGroupsHolders \cup GlobalModerators
    /\ DirectJoin

\* C8: with private groups disabled, a join of the caller himself is a direct
\* join with a group-join audit record, whatever the group's private and
\* disableJoinRequests flags and the caller's ownership; it is never refused
\* with group-join-disabled.
C8_JoinAllPublic ==
    (TableReached /\ ~allowPrivateGroups /\ WasSelf) =>
        /\ DirectJoin
        /\ last.err # "group-join-disabled"

\* The override applied for an owner of a private group with join requests disabled.
C8_Witness ==
    /\ TableReached
    /\ ~allowPrivateGroups
    /\ WasSelf
    /\ WasPrivate
    /\ WasJoinDisabled
    /\ WasOwner
    /\ DirectJoin

\* C9: when the first rule does not apply, a caller who is not a platform
\* admin and joins himself to a private group with join requests disabled is
\* refused with group-join-disabled and nothing is done, owner or not.
C9_JoinDisabled ==
    (TableReached /\ ~Rule1 /\ WasSelf /\ ~WasAdmin /\ WasPrivate /\ WasJoinDisabled) =>
        /\ last.err = "group-join-disabled"
        /\ NothingDone

\* An owner of the group was refused.
C9_Witness ==
    /\ TableReached
    /\ ~Rule1
    /\ WasSelf
    /\ ~WasAdmin
    /\ WasPrivate
    /\ WasJoinDisabled
    /\ WasOwner
    /\ last.err = "group-join-disabled"

RequestCase ==
    /\ WasSelf
    /\ allowPrivateGroups
    /\ WasPrivate
    /\ ~WasJoinDisabled
    /\ ~WasAdmin
    /\ ~WasOwner

\* C10: a join that reaches the decision table records a pending membership
\* request, with a group-request-membership audit record and the target's
\* membership unchanged, exactly when the caller is the target, private
\* groups are allowed, the group is private with join requests enabled and
\* the caller is neither platform admin nor owner; no other call records one.
C10_JoinRequest ==
    /\ TableReached => (RequestCase <=> PendingRequest)
    /\ (last.op # "none" /\ InTrace("groups.requestMembership")) =>
           (TableReached /\ RequestCase)
    /\ (last.op # "none" /\ ~(TableReached /\ RequestCase)) =>
           UNION {pending[n] : n \in GroupNames} \subseteq
               UNION {prev.pending[n] : n \in GroupNames}

\* A request was recorded for a caller who was not yet a member.
C10_Witness ==
    /\ TableReached
    /\ RequestCase
    /\ PendingRequest
    /\ last.data.uid \notin prev.members[LastGroup]
    /\ last.data.uid \notin members[LastGroup]
    /\ last.data.uid \in pending[LastGroup]

(***************************************************************************)
(* C11                                                                     *)
(***************************************************************************)
\* C11: a join in which the caller is not the target and is neither platform
\* admin nor group owner, on a group that is neither system nor privilege
\* and for a target that exists, returns without failure, leaves membership
\* and pending requests as they were and emits no audit record.
C11_JoinThirdPartyNoOp ==
    (JoinValidated /\ ~SystemOrPrivilege /\ last.data.uid \in UserIds
        /\ ~WasSelf /\ ~WasAdmin /\ ~WasOwner) =>
        /\ last.err = Ok
        /\ NothingDone
        /\ last.ret = Undefined

\* A global moderator asked to add another user to a group that is not private.
C11_Witness ==
    /\ JoinValidated
    /\ ~SystemOrPrivilege
    /\ last.data.uid \in UserIds
    /\ ~WasSelf
    /\ ~WasAdmin
    /\ ~WasOwner
    /\ ~WasPrivate
    /\ last.data.uid \notin prev.members[LastGroup]
    /\ last.err = Ok
    /\ NothingDone

(***************************************************************************)
(* C12 .. C16: leave                                                       *)
(***************************************************************************)
\* The last call is a leave that got past the self-removal test of the
\* administrators group: payload present, caller identifier positive, slug
\* resolved.
LeaveValidated ==
    /\ last.op = "leave"
    /\ last.data # NoData
    /\ last.caller.uid > 0
    /\ ~Falsy(LastGroup)

WasMember == last.data.uid \in prev.members[LastGroup]

WasLeaveDisabled == prev.groupData[LastGroup].disableLeave

SelfOnAdministrators == LastGroup = Administrators /\ WasSelf

\* The last call removed its target from the group, notified the owners and
\* wrote the group-leave audit record.
LeaveDone ==
    /\ last.err = Ok
    /\ Count("groups.leave") = 1
    /\ members = [prev.members EXCEPT ![LastGroup] = @ \ {last.data.uid}]
    /\ Len(last.notifications) = 1
    /\ last.events = <<AuditRecord("group-leave")>>

\* The state of the directory and of the sinks after a call that did nothing.
Quiet(l) ==
    /\ l.err = Ok
    /\ l.muts = <<>>
    /\ l.events = <<>>
    /\ l.notifications = <<>>
    /\ \A i \in 1..Len(l.trace) : l.trace[i] \notin MutationCalls \cup EmitCalls

\* C12: when a leave has removed its target from the group, the same leave
\* (same caller, target and group) made right after it calls no directory
\* leave, creates and delivers no notification, emits no audit record,
\* returns without failure and leaves the state as the first call left it.
C12_LeaveIdempotent ==
    [][(/\ last.op = "leave"
        /\ last.err = Ok
        /\ last.muts # <<>>
        /\ last'.op = "leave"
        /\ calls' = calls + 1
        /\ last'.caller = last.caller
        /\ last'.data = last.data)
       => (/\ Quiet(last')
           /\ groupData' = groupData
           /\ members' = members
           /\ owners' = owners
           /\ pending' = pending)]_vars

\* The second of two leaves of a member of the initial book club, by that member.
C12_Witness ==
    /\ calls = 2
    /\ LeaveValidated
    /\ LastGroup = BookClub
    /\ WasSelf
    /\ last.data.uid = "3"
    /\ ~WasMember
    /\ Quiet(last)
    /\ Dir = prev

TargetExists == last.data.uid \in UserIds

\* C13: a leave whose target exists but is no member of the resolved group
\* does nothing and fails for nobody, whoever calls it and whether or not
\* the group has leaving disabled; only the self-leave on administrators is
\* rejected earlier.
C13_LeaveNonMemberNoOp ==
    (LeaveValidated /\ TargetExists /\ ~WasMember /\ ~SelfOnAdministrators) =>
        Quiet(last) /\ Dir = prev

\* A caller who is neither the target, an administrator nor an owner asks for
\* the removal of somebody who is no member.
C13_Witness ==
    /\ LeaveValidated /\ TargetExists /\ ~WasMember
    /\ ~WasSelf /\ ~WasAdmin /\ ~WasOwner
    /\ Quiet(last) /\ Dir = prev

\* C14: a leave on administrators whose target is the caller fails with
\* cant-remove-self-as-admin and changes nothing, whatever the caller's roles
\* and membership, and after no lookup but the resolution of the slug.
C14_LeaveSelfAsAdmin ==
    (LeaveValidated /\ SelfOnAdministrators) =>
        /\ last.err = "cant-remove-self-as-admin"
        /\ NothingDone
        /\ last.trace = <<"groups.getGroupNameByGroupSlug">>

\* An administrator, member of the group, asks to leave it.
C14_Witness ==
    /\ LeaveValidated /\ SelfOnAdministrators
    /\ WasAdmin /\ WasMember
    /\ last.err = "cant-remove-self-as-admin"

\* C15: a leave removes a member only for a caller who is the target, an
\* administrator or an owner of the group; for a member target and any other
\* caller it fails with no-privileges and does nothing.
C15_LeaveAuthorization ==
    /\ (last.op = "leave" /\ InTrace("groups.leave")) =>
           WasSelf \/ WasAdmin \/ WasOwner
    /\ (LeaveValidated /\ TargetExists /\ WasMember
            /\ ~WasSelf /\ ~WasAdmin /\ ~WasOwner) =>
           last.err = "no-privileges" /\ NothingDone

\* A plain user asks for the removal of a member.
C15_Witness ==
    /\ LeaveValidated /\ TargetExists /\ WasMember
    /\ ~WasSelf /\ ~WasAdmin /\ ~WasOwner
    /\ last.err = "no-privileges"

\* C16: in a group with leaving disabled (administrators apart, whose
\* self-leave is rejected earlier) a member asking to leave fails with
\* group-leave-disabled and stays a member, administrator or owner included;
\* an administrator or owner still removes another member.
C16_LeaveDisabled ==
    /\ (LeaveValidated /\ WasLeaveDisabled /\ WasSelf /\ WasMember
            /\ LastGroup # Administrators) =>
           /\ last.err = "group-leave-disabled"
           /\ NothingDone
           /\ last.data.uid \in members[LastGroup]
    /\ (LeaveValidated /\ WasLeaveDisabled /\ ~WasSelf /\ WasMember
            /\ TargetExists /\ (WasAdmin \/ WasOwner)) =>
           LeaveDone

\* An owner of a group with leaving disabled asks to leave it.
C16_Witness ==
    /\ LeaveValidated /\ WasLeaveDisabled /\ WasSelf /\ WasMember
    /\ WasOwner
    /\ last.err = "group-leave-disabled"

(***************************************************************************)
(* C17: fail-fast                                                          *)
(***************************************************************************)
TypedFailures ==
    {"invalid-data", "invalid-group-name", "invalid-uid", "no-group",
     "no-privileges", "not-allowed", "group-join-disabled",
     "group-leave-disabled", "cant-remove-self-as-admin"}

MutationCount ==
    Cardinality({i \in 1..Len(last.trace) : last.trace[i] \in MutationCalls})

\* C17: a call that ends in a typed failure has called no directory mutation
\* and has left groups, membership, pending requests and ownership as they
\* were; every call calls the directory to mutate at most once.
C17_FailFast ==
    /\ (last.op # "none" /\ last.err \in TypedFailures) =>
           Dir = prev /\ last.muts = <<>> /\ MutationCount = 0
    /\ last.op # "none" => MutationCount <= 1 /\ Len(last.muts) <= 1

\* A join refused by the last rule of the decision table, after every
\* validation and lookup.
C17_Witness ==
    /\ last.op = "join"
    /\ last.err = "group-join-disabled"
    /\ MutationCount = 0
    /\ Dir = prev

(***************************************************************************)
(* C18: failures of the sinks                                              *)
(***************************************************************************)
\* The last call committed its mutation.
Committed == last.op # "none" /\ last.muts # <<>> /\ Dir = ApplyAll(prev, last.muts)

\* C18: once the mutation of a call is committed, the call returns success
\* and the mutation stays in place, even when the audit sink or the
\* notification sink fails.
C18_SinkFailureNotSurfaced ==
    (last.op # "none" /\ last.muts # <<>>) => last.err = Ok /\ Committed

(***************************************************************************)
(* C19: the audit trail                                                    *)
(***************************************************************************)
\* The tags under which an operation is recorded.
TagsOf(op) ==
    CASE op = "create" -> {"group-create"}
      [] op = "update" -> {"group-update"}
      [] op = "delete" -> {"group-delete"}
      [] op = "join" -> {"group-join", "group-request-membership"}
      [] op = "leave" -> {"group-leave"}
      [] op = "grant" -> {"group-owner-grant"}
      [] op = "rescind" -> {"group-owner-rescind"}

\* The group the last call acted on.
ActedGroup == IF last.op = "create" THEN last.data.name ELSE LastGroup

\* The audit sink received a record of the last call: its tag, the caller's
\* identifier and network address, the group name.
Recorded ==
    \E i \in 1..Len(last.events) :
        /\ last.events[i].type \in TagsOf(last.op)
        /\ last.events[i].uid = last.caller.uid
        /\ last.events[i].ip = last.caller.ip
        /\ last.events[i].groupName = ActedGroup

CompletedMutation == last.op # "none" /\ last.err = Ok /\ last.muts # <<>>

\* C19: whenever a create, update, delete, join, leave, grant or rescind has
\* performed its mutation and returned, the audit sink has received a record
\* of it with the action tag, the caller's identifier and network address
\* and the group name.
C19_EveryMutationRecorded == CompletedMutation => Recorded

(***************************************************************************)
(* C20: grant and rescind                                                  *)
(***************************************************************************)
OwnershipReached == GateReached /\ last.op \in {"grant", "rescind"}

OwnershipCall ==
    IF last.op = "grant" THEN "groups.ownership.grant" ELSE "groups.ownership.rescind"

OwnersExpected ==
    IF last.op = "grant"
    THEN [prev.owners EXCEPT ![LastGroup] = @ \cup {last.data.uid}]
    ELSE [prev.owners EXCEPT ![LastGroup] = @ \ {last.data.uid}]

\* C20: a grant or rescind adds the target to, or removes it from, the owners
\* of the group exactly when the caller passes the isOwner gate, whether or
\* not the target is the caller; on pass the group-owner-grant or
\* group-owner-rescind audit record follows the mutation, and a caller who
\* fails the gate changes nothing.
C20_GrantRescind ==
    OwnershipReached =>
        /\ GateExpected <=> InTrace(OwnershipCall)
        /\ GateExpected =>
               /\ last.err = Ok
               /\ owners = OwnersExpected
               /\ groupData = prev.groupData
               /\ members = prev.members
               /\ pending = prev.pending
               /\ last.events = <<AuditRecord("group-owner-" \o last.op)>>
               /\ SubSeq(last.trace, Len(last.trace) - 1, Len(last.trace))
                      = <<OwnershipCall, "events.log">>
        /\ ~GateExpected => NothingDone /\ owners = prev.owners

\* An owner who is neither administrator nor moderator gives up ownership.
C20_Witness ==
    /\ OwnershipReached
    /\ last.op = "rescind"
    /\ WasSelf /\ WasOwner
    /\ last.caller.uid \notin AdminGroupsHolders \cup GlobalModerators
    /\ last.err = Ok
    /\ last.data.uid \notin owners[LastGroup]

(***************************************************************************)
(* C21: owners of non-system groups                                        *)
(***************************************************************************)
\* The groups that have a record of their own; the ephemeral groups are
\* computed, nobody owns them.
RecordedGroups == {n \in GroupNames \ ephemeralGroups : groupData[n] # NoGroup}

\* C21: in every reachable state every existing non-system group has at
\* least one owner.
C21_NonSystemGroupsOwned ==
    \A n \in RecordedGroups : ~groupData[n].system => owners[n] # {}

(***************************************************************************)
(* C22: the system flag                                                    *)
(***************************************************************************)
\* The groups that are system groups from the start.  Every other group is
\* there from the start as a non-system group, or comes from create, or is
\* such a group renamed.
SystemFromStart ==
    {n \in GroupNames : InitGroupData[n] # NoGroup /\ InitGroupData[n].system}

UpdateDone == last.op = "update" /\ last.err = Ok /\ last.muts # <<>>

SlugUnresolved ==
    /\ last.op \in GateOps
    /\ last.data # NoData
    /\ LastGroup = Null

\* The failure kinds that would mask the directory's own.
MaskingFailures == {"invalid-group-name", "no-privileges"}

\* C23: an update, delete, grant or rescind whose slug resolves to no group
\* fails with the directory's own failure kind, not with invalid-group-name
\* or no-privileges, and mutates nothing.
C23_UnresolvedSlugNotMasked ==
    SlugUnresolved =>
        /\ last.err \notin {Ok} \cup MaskingFailures
        /\ NothingDone

(***************************************************************************)
(* C24: the rejections of create                                           *)
(***************************************************************************)
NoCaller == last.caller.uid = 0

NoPayload == last.data = NoData

BadName == ~IsString(last.data.name) \/ isPrivilegeGroup(last.data.name)

\* The last call failed with err after the collaborator calls of trace, and
\* did nothing.
Rejected(err, trace) == last.err = err /\ last.trace = trace /\ NothingDone

\* C24: create reports the first rejection that applies, in this order: no
\* caller identifier (no-privileges), no payload (invalid-data), a name that
\* is no string or is a privilege-group name (invalid-group-name, before the
\* capability is looked up), no group:create capability (no-privileges); in
\* each case the directory's create is not called and nothing is recorded.
C24_CreateRejectionOrder ==
    last.op = "create" =>
        /\ NoCaller => Rejected("no-privileges", <<>>)
        /\ (~NoCaller /\ NoPayload) => Rejected("invalid-data", <<>>)
        /\ (~NoCaller /\ ~NoPayload /\ BadName) =>
               Rejected("invalid-group-name", <<>>)
        /\ (~NoCaller /\ ~NoPayload /\ ~BadName
                /\ last.caller.uid \notin GroupCreators) =>
               Rejected("no-privileges", <<"privileges.global.can">>)

\* A guest calls create without a payload.
C24_Witness ==
    /\ last.op = "create"
    /\ NoCaller
    /\ NoPayload
    /\ Rejected("no-privileges", <<>>)

(***************************************************************************)
(* C25: reads and the mutation                                             *)
(***************************************************************************)
\* The positions of the last call's trace where a read follows a mutation.
ReadsAfterMutation ==
    {j \in 1..Len(last.trace) :
        /\ last.trace[j] \in ReadCalls
        /\ \E i \in 1..(j - 1) : last.trace[i] \in MutationCalls}

\* The reads a handler makes to build what follows its mutation: the record
\* update returns, the notification of leave.
FollowUpReads(op) ==
    CASE op = "update" -> {"groups.getGroupData"}
      [] op = "leave" -> {"user.getUserFields", "groups.getOwners"}
      [] OTHER -> {}

\* The reads that decide a call.
DecisionReads == ReadCalls \ {"user.getUserFields", "groups.getOwners"}

\* C25 as stated: in every call of every operation no collaborator read
\* (permission, existence, configuration, display-name, owner-set lookup)
\* comes after the mutation.
C25_Original == last.op # "none" => ReadsAfterMutation = {}

\* C25, amended: in every call the reads that decide it precede the mutation;
\* the only reads after the mutation are the reload of the record that update
\* returns (one groups.getGroupData) and, in leave, the display-name and
\* owner-set lookups that build and address the notification.
C25_ReadsBeforeMutation ==
    last.op # "none" =>
        /\ \A j \in ReadsAfterMutation : last.trace[j] \in FollowUpReads(last.op)
        /\ Cardinality(ReadsAfterMutation) <= 2
        /\ last.op = "update" => Cardinality(ReadsAfterMutation) <= 1
        /\ \A i \in 1..Len(last.trace) :
               last.trace[i] \in MutationCalls =>
                   \A c \in DecisionReads \ FollowUpReads(last.op) :
                       \A j \in (i + 1)..Len(last.trace) : last.trace[j] # c

\* A leave that removed its target, then looked up its name and the owners.
C25_Witness ==
    /\ last.op = "leave"
    /\ last.err = Ok
    /\ InTrace("groups.leave")
    /\ Cardinality(ReadsAfterMutation) = 2

(***************************************************************************)
(* C26: emissions follow the mutation                                      *)
(***************************************************************************)
\* The audit tag that goes with a directory mutation; update has none.
TagOfMutation(call) ==
    CASE call = "groups.create" -> "group-create"
      [] call = "groups.destroy" -> "group-delete"
      [] call = "groups.join" -> "group-join"
      [] call = "groups.requestMembership" -> "group-request-membership"
      [] call = "groups.leave" -> "group-leave"
      [] call = "groups.ownership.grant" -> "group-owner-grant"
      [] call = "groups.ownership.rescind" -> "group-owner-rescind"
      [] OTHER -> "none"

\* The place of a collaborator call in the trace of the last call.
Pos(c) == CHOOSE i \in 1..Len(last.trace) : last.trace[i] = c

\* C26: in every call the audit record and the leave notification are
\* emitted after the call's mutation and only in a call that made one; the
\* tag of the record is that of the mutation made; in leave the directory
\* leave comes first, then the notification is pushed to the owners, then
\* the group-leave record is written.
C26_EmitAfterMutation ==
    last.op # "none" =>
        /\ \A j \in 1..Len(last.trace) :
               last.trace[j] \in EmitCalls =>
                   \E i \in 1..(j - 1) : last.trace[i] \in MutationCalls
        /\ (last.events # <<>> \/ last.notifications # <<>>) =>
               Len(last.muts) = 1 /\ Dir = Apply(prev, last.muts[1])
        /\ \A k \in 1..Len(last.events) :
               last.events[k].type = TagOfMutation(last.muts[1].call)
        /\ last.notifications # <<>> => last.op = "leave"
        /\ (last.op = "leave" /\ last.muts # <<>>) =>
               /\ Pos("groups.leave") < Pos("notifications.create")
               /\ Pos("notifications.create") < Pos("notifications.push")
               /\ Pos("notifications.push") < Pos("events.log")
               /\ Len(last.notifications) = 1
               /\ last.notifications[1].to = owners[LastGroup]
               /\ last.events = <<AuditRecord("group-leave")>>

\* A member left a group that has owners: they were notified, then the
\* record was written.
C26_Witness ==
    /\ last.op = "leave"
    /\ last.muts # <<>>
    /\ Len(last.notifications) = 1
    /\ last.notifications[1].to # {}
    /\ last.events = <<AuditRecord("group-leave")>>

(***************************************************************************)
(* C27: the administrators group under interleaved leave calls             *)
(***************************************************************************)
\* C27: the administrators group, non-empty at the start with every owner a
\* member, never becomes empty through leave calls, however their
\* collaborator calls interleave.
C27_AdministratorsNeverEmpty == members[Administrators] # {}

====
